---- MODULE Spec2Model ----
(***************************************************************************)
(* A model of the bus breadcrumb pipeline's transform stage                *)
(* (src/transform.py): the timestamp decoder, the trip aggregator, the     *)
(* speed calculator and the transactional loader of process_day_file; and  *)
(* of the subscriber's message callback (src/data_subscriber.py).          *)
(*                                                                         *)
(* Python values are modelled as follows.                                  *)
(*  - None is the empty tuple.                                             *)
(*  - An OPD_DATE string "DDMONYYYY:00:00:00" is the tuple                 *)
(*    <<DD, "MON", YYYY>> of its three fixed-offset tokens.                *)
(*  - A datetime is the tuple <<year, month, day, hour, minute, second>>.  *)
(*  - A float speed meters_diff / time_diff is the fraction                *)
(*    <<numerator, denominator>> in lowest terms.                          *)
(*  - A dict is the sequence of its <<key, value>> items in insertion      *)
(*    order.                                                               *)
(***************************************************************************)
EXTENDS Integers, Sequences, FiniteSets, Bags, TLC

VARIABLES
    \* ---- the store (PostgreSQL), as committed and as seen by the open transaction
    Trip,               \* committed Trip table: a set of rows
    BreadCrumb,         \* committed BreadCrumb table: a bag of rows
    txTrip,             \* Trip table as seen inside the open transaction
    txBreadCrumb,       \* BreadCrumb table as seen inside the open transaction
    \* ---- process_day_file: arguments, locals, position
    pc,                 \* position of the run
    date_str,           \* argument: the calendar date of the run, <<y, m, d>>
    clear_existing,     \* argument
    file,               \* the day file on disk: whether the run found it
                        \* (line 91), its lines as last read (line 116), and
                        \* whether it is unchanged since (the next read then
                        \* gets the same lines)
    conn,               \* "None" | "open" | "closed"
    cursor,             \* "unbound" | "open" | "closed"
    breadcrumbs_by_trip,
    trips_data,
    breadcrumb_data,
    i,                  \* loop variable of the batch loop (line 275)
    errors,             \* the batch error tally (line 273)
    \* ---- observation of the run (history, not program state)
    obs,
    \* ---- the subscriber (data_subscriber.py)
    daily_files,        \* the module's dict: date string -> file handle
    handles,            \* the file objects opened so far: handle h is handles[h]
    disk,               \* the day files of OUTPUT_DIR: date string -> lines
    now,                \* the date of datetime.datetime.now()
    delivered,          \* messages handed to callbacks so far
    cb,                 \* the callbacks running process_message: position,
                        \* message, locals, and what happened to the message
    \* ---- the collector (data_collector.py), one call of publish_to_pubsub
    records,            \* argument: the records to publish
    publish_pc,         \* position of the call
    next_record,        \* index in records of the loop of line 102
    futures,            \* the local list of publish futures (record indices)
    awaited,            \* how many of futures the running await loop is past
    published_count,
    error_count,
    returned            \* None, or the returned pair

transformVars == <<Trip, BreadCrumb, txTrip, txBreadCrumb, pc, date_str,
                   clear_existing, file, conn, cursor, breadcrumbs_by_trip,
                   trips_data, breadcrumb_data, i, errors, obs>>

subscriberVars == <<daily_files, handles, disk, now, delivered, cb>>

collectorVars == <<records, publish_pc, next_record, futures, awaited,
                   published_count, error_count, returned>>

vars == <<transformVars, subscriberVars, collectorVars>>

None == <<>>

\* ------------------------------------------------------------------ bounds
\* Longest day file of the transform-only specification SpecT.
MaxLen == 4
\* Longest day file of the loader specification Spec.
MaxLines == 3
\* Number of runs of process_day_file in a behaviour of Spec.
MaxRuns == 2
\* Rows per breadcrumb batch: 1000 in the source (line 271), scaled down so
\* that a day file of MaxLines lines spans more than one batch.
batch_size == 2
\* Number of messages the subscription delivers in a behaviour of SpecS.
MaxMessages == 2
\* Publish futures per batch: 100 in the source (data_collector.py line 37),
\* scaled down so that a call with MaxRecords records awaits full batches
\* and a remainder.
PUBSUB_BATCH_SIZE == 2
\* Longest list of records handed to publish_to_pubsub in SpecC.
MaxRecords == 6

\* ------------------------------------------------------------ calendar
\* datetime's proleptic Gregorian calendar, as used by lines 50, 54, 161, 162.
IsLeap(y) == (y % 4 = 0 /\ y % 100 # 0) \/ (y % 400 = 0)

DaysInMonth(y, m) ==
    IF m = 2 THEN (IF IsLeap(y) THEN 29 ELSE 28)
    ELSE IF m \in {4, 6, 9, 11} THEN 30 ELSE 31

\* datetime(year, month, day) raises ValueError unless this holds.
ValidDate(y, m, d) ==
    /\ y \in 1..9999
    /\ m \in 1..12
    /\ d \in 1..DaysInMonth(y, m)

RECURSIVE DaysBeforeMonth(_, _)
DaysBeforeMonth(y, m) ==
    IF m = 1 THEN 0 ELSE DaysBeforeMonth(y, m - 1) + DaysInMonth(y, m - 1)

\* date.toordinal(): 1 for 0001-01-01.
Ordinal(y, m, d) ==
    LET p == y - 1
    IN  p * 365 + (p \div 4) - (p \div 100) + (p \div 400)
        + DaysBeforeMonth(y, m) + d

\* date.weekday(): Monday is 0, Sunday is 6.
Weekday(y, m, d) == (Ordinal(y, m, d) + 6) % 7

\* A decoder that drops the days past the first 86400 seconds.
AddDaysIgnores(date, n) == date

\* date + timedelta(days=n); None stands for OverflowError (year > 9999).
RECURSIVE AddDays(_, _)
AddDays(date, n) ==
    IF n = 0 THEN date
    ELSE LET y == date[1]
             m == date[2]
             d == date[3]
             next == IF d < DaysInMonth(y, m) THEN <<y, m, d + 1>>
                     ELSE IF m < 12 THEN <<y, m + 1, 1>>
                     ELSE <<y + 1, 1, 1>>
         IN  IF next[1] > 9999 THEN None ELSE AddDays(next, n - 1)

months == [JAN |-> 1, FEB |-> 2, MAR |-> 3, APR |-> 4, MAY |-> 5, JUN |-> 6,
           JUL |-> 7, AUG |-> 8, SEP |-> 9, OCT |-> 10, NOV |-> 11, DEC |-> 12]

\* ---------------------------------------------------- Timestamp Decoder
\* parse_timestamp (lines 25-59): the datetime, or None when anything raised.
parse_timestamp(opd_date, act_time) ==
    LET day == opd_date[1]
        month_str == opd_date[2]
        year == opd_date[3]
    IN  IF month_str \notin DOMAIN months THEN None          \* KeyError
        ELSE
        LET month == months[month_str]
            days_to_add == act_time \div 86400
            seconds_in_day == act_time % 86400
            hours == seconds_in_day \div 3600
            minutes == (seconds_in_day % 3600) \div 60
            seconds == seconds_in_day % 60
        IN  IF ~ValidDate(year, month, day) THEN None        \* ValueError
            ELSE IF days_to_add > 0
            THEN LET moved == AddDays(<<year, month, day>>, days_to_add)
                 IN  IF moved = None THEN None               \* OverflowError
                     ELSE <<moved[1], moved[2], moved[3], hours, minutes, seconds>>
            ELSE <<year, month, day, hours, minutes, seconds>>

\* DATE(tstamp) of the store (lines 70, 291).
DATE(tstamp) == <<tstamp[1], tstamp[2], tstamp[3]>>

\* ------------------------------------------------ Service-Day Classifier
\* A classifier with the two weekend categories exchanged.
service_key_swapped(weekday) ==
    IF weekday = 5 THEN "Sunday"
    ELSE IF weekday = 6 THEN "Saturday"
    ELSE "Weekday"

\* Lines 164-170.
service_key(weekday) ==
    IF weekday = 5 THEN "Saturday"
    ELSE IF weekday = 6 THEN "Sunday"
    ELSE "Weekday"

\* ------------------------------------------------------- Trip Aggregator
\* The sort key of line 133 and Python's tuple order on it.
SortKey(x) == <<x.EVENT_NO_TRIP, x.ACT_TIME>>

KeyLE(a, b) == a[1] < b[1] \/ (a[1] = b[1] /\ a[2] <= b[2])

Front(s) == SubSeq(s, 1, Len(s) - 1)

Last(s) == s[Len(s)]

\* A sort that is not stable: x goes before the elements of equal key.
RECURSIVE InsertSortedUnstable(_, _)
InsertSortedUnstable(s, x) ==
    IF s = <<>> THEN <<x>>
    ELSE IF ~KeyLE(SortKey(x), SortKey(Last(s))) THEN Append(s, x)
    ELSE Append(InsertSortedUnstable(Front(s), x), Last(s))

\* list.sort is stable: x goes after every element whose key is <= its own.
RECURSIVE InsertSorted(_, _)
InsertSorted(s, x) ==
    IF s = <<>> THEN <<x>>
    ELSE IF KeyLE(SortKey(Last(s)), SortKey(x)) THEN Append(s, x)
    ELSE Append(InsertSorted(Front(s), x), Last(s))

\* breadcrumbs.sort(key=...) (line 133).
RECURSIVE sort(_)
sort(s) == IF s = <<>> THEN <<>> ELSE InsertSorted(sort(Front(s)), Last(s))

\* Position of key k in a dict (sequence of <<key, value>> items), 0 if absent.
RECURSIVE IndexOf(_, _)
IndexOf(dict, k) ==
    IF dict = <<>> THEN 0
    ELSE IF Last(dict)[1] = k /\ IndexOf(Front(dict), k) = 0 THEN Len(dict)
    ELSE IndexOf(Front(dict), k)

\* The Trip tuple of lines 148-181 for the first record bc of a trip; None
\* stands for the exception lines 149-161 raise on an undecodable OPD_DATE.
TripTuple(bc) ==
    LET day == bc.OPD_DATE[1]
        month_str == bc.OPD_DATE[2]
        year == bc.OPD_DATE[3]
    IN  IF month_str \notin DOMAIN months THEN None
        ELSE IF ~ValidDate(year, months[month_str], day) THEN None
        ELSE <<bc.EVENT_NO_TRIP, None, bc.VEHICLE_ID,
               service_key(Weekday(year, months[month_str], day)), "Out">>

\* The grouping loop of lines 137-181 over the sorted list: the two dicts and
\* whether the loop raised.
RECURSIVE Group(_)
Group(bcs) ==
    IF bcs = <<>> THEN [by_trip |-> <<>>, trips |-> <<>>, raised |-> FALSE]
    ELSE
    LET g == Group(Front(bcs))
        bc == Last(bcs)
        trip_id == bc.EVENT_NO_TRIP
        k == IndexOf(g.by_trip, trip_id)
        by_trip == IF k = 0 THEN Append(g.by_trip, <<trip_id, <<bc>> >>)
                   ELSE [g.by_trip EXCEPT ![k] = <<trip_id, Append(@[2], bc)>>]
    IN  IF g.raised THEN g
        ELSE IF IndexOf(g.trips, trip_id) # 0
        THEN [g EXCEPT !.by_trip = by_trip]
        ELSE IF TripTuple(bc) = None THEN [g EXCEPT !.raised = TRUE]
        ELSE [by_trip |-> by_trip,
              trips |-> Append(g.trips, <<trip_id, TripTuple(bc)>>),
              raised |-> FALSE]

\* ------------------------------------------------------ Speed Calculator
RECURSIVE GCD(_, _)
GCD(a, b) == IF b = 0 THEN a ELSE GCD(b, a % b)

Abs(x) == IF x < 0 THEN -x ELSE x

\* meters_diff / time_diff (line 226), for time_diff > 0.
Divide(meters_diff, time_diff) ==
    LET g == GCD(Abs(meters_diff), time_diff)
    IN  <<meters_diff \div g, time_diff \div g>>

\* The guard of line 225.
TimeDiffOK(time_diff) == time_diff > 0

\* The index of breadcrumb_data that lines 252-259 overwrite: 0 in the source,
\* that is the first element of the whole list (1 here: sequences start at 1).
FirstBreadcrumbIndex(data, start) == 1

\* Lines 208-259 for one trip: the inner loop over the trip's breadcrumbs from
\* position n down (st carries breadcrumb_data and second_breadcrumb_speed),
\* then the update of the first breadcrumb.
RECURSIVE TripLoop(_, _, _, _)
TripLoop(data, trip_id, tb, n) ==
    IF n = 0 THEN [data |-> data, second |-> None]
    ELSE
    LET st == TripLoop(data, trip_id, tb, n - 1)
        idx == n - 1                                  \* the source's i
        bc == tb[n]
        timestamp == parse_timestamp(bc.OPD_DATE, bc.ACT_TIME)
        prev_bc == tb[n - 1]
        meters_diff == bc.METERS - prev_bc.METERS
        time_diff == bc.ACT_TIME - prev_bc.ACT_TIME
        speed == IF idx > 0 /\ TimeDiffOK(time_diff)
                 THEN Divide(meters_diff, time_diff) ELSE None
        second == IF idx = 1 /\ TimeDiffOK(time_diff) THEN speed ELSE st.second
        row == IF idx = 0 /\ Len(tb) > 1
               THEN <<timestamp, bc.GPS_LATITUDE, bc.GPS_LONGITUDE, None, trip_id>>
               ELSE <<timestamp, bc.GPS_LATITUDE, bc.GPS_LONGITUDE, speed, trip_id>>
    IN  IF timestamp = None THEN st                   \* continue (line 215)
        ELSE [data |-> Append(st.data, row), second |-> second]

ProcessTrip(data, trip_id, tb) ==
    LET st == TripLoop(data, trip_id, tb, Len(tb))
        at == FirstBreadcrumbIndex(st.data, Len(data) + 1)
    IN  IF st.second # None /\ Len(tb) > 1
        THEN [st.data EXCEPT ![at] = <<@[1], @[2], @[3], st.second, @[5]>>]
        ELSE st.data

\* The loop of line 207 over breadcrumbs_by_trip.items().
RECURSIVE BreadcrumbData(_)
BreadcrumbData(by_trip) ==
    IF by_trip = <<>> THEN <<>>
    ELSE ProcessTrip(BreadcrumbData(Front(by_trip)),
                     Last(by_trip)[1], Last(by_trip)[2])

\* ------------------------------------------------------------ day files
\* A line of the day file is a JSON object (a record) or text json.loads
\* rejects (line 122).
BadLine == [garbage |-> TRUE]

Decodes(line) == line # BadLine

RawBreadcrumb(trip, vehicle, opd, act, meters) ==
    [EVENT_NO_TRIP |-> trip, VEHICLE_ID |-> vehicle, OPD_DATE |-> opd,
     ACT_TIME |-> act, GPS_LATITUDE |-> 45, GPS_LONGITUDE |-> -122,
     METERS |-> meters]

\* Lines 116-124: the decodable lines, in file order.
ReadLines(lines) == SelectSeq(lines, Decodes)

RECURSIVE SeqsUpTo(_, _)
SeqsUpTo(S, n) ==
    IF n = 0 THEN {<<>>}
    ELSE LET shorter == SeqsUpTo(S, n - 1)
         IN  shorter \cup {Append(s, x) : s \in {t \in shorter : Len(t) = n - 1}, x \in S}

\* Records of the transform-only specification: two trips. A record of
\* 31DEC9999 with ACT_TIME 86400 has a decodable date and no timestamp (the
\* added day leaves datetime's range); one of 25XXX2022 has neither.
RecordsT ==
    {RawBreadcrumb(t, 7, oa[1], oa[2], m) :
        t \in {1, 2},
        oa \in {<< <<25, "DEC", 2022>>, 0>>,
                << <<25, "XXX", 2022>>, 10>>,
                << <<31, "DEC", 9999>>, 86400>>,
                << <<25, "DEC", 2022>>, 90000>>},
        m \in {0, 100}}

\* Lines of the loader specification: trip 1 with a point and a record that
\* has no timestamp; trip 2 with two points (the later one past midnight, on
\* another vehicle) and a record whose date does not decode; garbage.
Lines ==
    {RawBreadcrumb(1, 7, <<25, "DEC", 2022>>, 0, 0),
     RawBreadcrumb(1, 7, <<31, "DEC", 9999>>, 86400, 50),
     RawBreadcrumb(2, 7, <<25, "DEC", 2022>>, 0, 0),
     RawBreadcrumb(2, 7, <<25, "XXX", 2022>>, 10, 0),
     RawBreadcrumb(2, 8, <<25, "DEC", 2022>>, 90000, 100),
     BadLine}

Dates == {<<2022, 12, 25>>, <<2022, 12, 26>>}

FileContents == SeqsUpTo(Lines, MaxLines)

FilesT == {[exists |-> TRUE, lines |-> s, unchanged |-> FALSE] :
              s \in SeqsUpTo(RecordsT, MaxLen)}

\* ---------------------------------------------------------------- store
\* The rows of a list, as a bag.
RECURSIVE BagOf(_)
BagOf(rows) ==
    IF rows = <<>> THEN EmptyBag ELSE BagOf(Front(rows)) (+) SetToBag({Last(rows)})

\* DELETE FROM BreadCrumb WHERE DATE(tstamp) = %s (lines 68-71).
DeleteForDate(table, d) ==
    LET keep == {r \in DOMAIN table : DATE(r[1]) # d}
    IN  [r \in keep |-> table[r]]

TripIds(table) == {t[1] : t \in table}

\* An upsert that overwrites: ON CONFLICT (trip_id) DO UPDATE.
RECURSIVE InsertTripsOverwrites(_, _)
InsertTripsOverwrites(table, rows) ==
    IF rows = <<>> THEN table
    ELSE LET t == InsertTripsOverwrites(table, Front(rows))
         IN  {r \in t : r[1] # Last(rows)[1]} \cup {Last(rows)}

\* INSERT INTO Trip ... ON CONFLICT (trip_id) DO NOTHING (lines 190-195).
RECURSIVE InsertTrips(_, _)
InsertTrips(table, rows) ==
    IF rows = <<>> THEN table
    ELSE LET t == InsertTrips(table, Front(rows))
         IN  IF Last(rows)[1] \in TripIds(t) THEN t ELSE t \cup {Last(rows)}

\* A BreadCrumb table with no foreign key.
NoForeignKey(batch, trips) == TRUE

\* BreadCrumb.trip_id REFERENCES Trip: the store rejects a batch holding a row
\* of a trip that has no Trip row.
ForeignKeyHolds(batch, trips) ==
    \A k \in 1..Len(batch) : batch[k][5] \in TripIds(trips)

\* INSERT INTO BreadCrumb ... ON CONFLICT DO NOTHING (lines 265-279): the
\* table has no unique key, so no row ever conflicts.
InsertBreadcrumbs(table, batch) == table (+) BagOf(batch)

\* list(trips_data.values()) (line 195).
RECURSIVE Values(_)
Values(dict) == IF dict = <<>> THEN <<>> ELSE Append(Values(Front(dict)), Last(dict)[2])

Min(a, b) == IF a < b THEN a ELSE b

\* breadcrumb_data[i:i+batch_size] (line 276).
Batch(data, at) == SubSeq(data, at + 1, Min(at + batch_size, Len(data)))

\* ------------------------------------------- data_subscriber.py: state
\* The threads of the subscriber's callback pool (main, line 107).
Callbacks == {1, 2}

\* Date strings "YYYY-MM-DD": of message timestamps and of the clock.
DatesS == {"2025-04-13", "2025-04-14"}

\* Message data: text json.loads rejects; records whose "timestamp" is
\* "<date> <time>" (the tuple of its whitespace-separated tokens); a record
\* whose timestamp is the empty string; a record with no timestamp.
Payloads ==
    {BadLine, [VEHICLE_ID |-> 7], [VEHICLE_ID |-> 7, timestamp |-> <<>>]}
    \cup {[VEHICLE_ID |-> 7, timestamp |-> <<d, "14:30:45">>] : d \in DatesS}

\* A callback that is not running; message 0 is no message, handle 0 is no
\* handle, "" is no date string.
IdleCallback ==
    [pc |-> "idle", message |-> 0, data |-> BadLine, date_str |-> "",
     file_handle |-> 0, olds |-> {}, acks |-> 0, nacks |-> 0,
     failed |-> "none"]

\* The module after import (lines 40-47): no file is open; key d of
\* daily_files maps to 0 when the dict has no such key.
InitSubscriber ==
    /\ daily_files = [d \in DatesS |-> 0]
    /\ handles = <<>>
    /\ disk = [d \in DatesS |-> <<>>]
    /\ now = "2025-04-13"
    /\ delivered = 0
    /\ cb = [c \in Callbacks |-> IdleCallback]

\* publish_to_pubsub not called yet: no argument, no local is bound.
InitCollector ==
    /\ records = <<>>
    /\ publish_pc = "idle"
    /\ next_record = 0
    /\ futures = <<>>
    /\ awaited = 0
    /\ published_count = 0
    /\ error_count = 0
    /\ returned = None

\* ------------------------------------------------- process_day_file
\* What a run has done so far: the committed store it started from, its
\* commits, how it ended, which scopes it attempted and how they ended, whether
\* the store failed it, and whether it repeats the run before it (same date,
\* same file, purging), that run having committed with no failure.
NoObs ==
    [run |-> 0, preTrip |-> {}, preBreadCrumb |-> EmptyBag, commits |-> 0,
     outcome |-> "none", purge |-> "no", trips |-> "no", batches |-> <<>>,
     failed |-> FALSE, rerun |-> FALSE]

\* A run that committed with no failure of the store.
Clean(o) == o.outcome = "committed" /\ ~o.failed

Init ==
    /\ InitSubscriber
    /\ InitCollector
    /\ Trip = {}
    /\ BreadCrumb = EmptyBag
    /\ txTrip = {}
    /\ txBreadCrumb = EmptyBag
    /\ pc = "idle"
    /\ date_str = None
    /\ clear_existing = TRUE
    /\ file = [exists |-> FALSE, lines |-> <<>>, unchanged |-> FALSE]
    /\ conn = "None"
    /\ cursor = "unbound"
    /\ breadcrumbs_by_trip = <<>>
    /\ trips_data = <<>>
    /\ breadcrumb_data = <<>>
    /\ i = 0
    /\ errors = 0
    /\ obs = NoObs

\* A run that goes on after a failed purge.
AfterPurgeFailureContinues == "continue"

\* Where a run goes when the purge failed (lines 109-111): it returns.
AfterPurgeFailure == "return"

\* A handler that forgets to count the failed batch.
CountErrorForgets(n) == n

\* The error tally after a failed batch (line 286).
CountError(n) == n + 1

\* A handler that issues ROLLBACK: the whole transaction is undone.
RollbackAll(savepoint, committed) == committed

\* ROLLBACK TO SAVEPOINT (lines 81, 200, 285): the tables <<Trip, BreadCrumb>>
\* of the transaction as they were when the savepoint was set (savepoint), not
\* as they are committed.
RollbackToSavepoint(savepoint, committed) == savepoint

\* A run that goes on without its day file.
AfterExistsCheckIgnores(exists) == "connect"

\* Where a run goes after the existence check (lines 91-93): it returns when
\* the day file does not exist.
AfterExistsCheck(exists) == IF exists THEN "connect" ELSE "done"

\* Lines 86-95: the call, the existence check.
Start ==
    /\ UNCHANGED <<subscriberVars, collectorVars>>
    /\ pc \in {"idle", "done"}
    /\ obs.run < MaxRuns
    /\ \E d \in Dates, c \in BOOLEAN, exists \in BOOLEAN :
        /\ date_str' = d
        /\ clear_existing' = c
        /\ file' = [exists |-> exists, lines |-> <<>>, unchanged |-> FALSE]
        /\ pc' = AfterExistsCheck(exists)
        /\ obs' = [NoObs EXCEPT
                     !.run = obs.run + 1,
                     !.preTrip = Trip,
                     !.preBreadCrumb = BreadCrumb,
                     !.outcome = IF AfterExistsCheck(exists) = "done"
                                 THEN "skipped" ELSE "none"]
    /\ conn' = "None"
    /\ cursor' = "unbound"
    /\ breadcrumbs_by_trip' = <<>>
    /\ trips_data' = <<>>
    /\ breadcrumb_data' = <<>>
    /\ i' = 0
    /\ errors' = 0
    /\ UNCHANGED <<Trip, BreadCrumb, txTrip, txBreadCrumb>>

\* Lines 86-95 again, for the date of the run before, which purged and
\* committed with no failure, while the day file is as that run read it.
Rerun ==
    /\ UNCHANGED <<subscriberVars, collectorVars>>
    /\ pc = "done"
    /\ obs.run < MaxRuns
    /\ Clean(obs)
    /\ clear_existing
    /\ file' = [file EXCEPT !.unchanged = TRUE]
    /\ pc' = "connect"
    /\ obs' = [NoObs EXCEPT
                 !.run = obs.run + 1,
                 !.preTrip = Trip,
                 !.preBreadCrumb = BreadCrumb,
                 !.rerun = TRUE]
    /\ conn' = "None"
    /\ cursor' = "unbound"
    /\ breadcrumbs_by_trip' = <<>>
    /\ trips_data' = <<>>
    /\ breadcrumb_data' = <<>>
    /\ i' = 0
    /\ errors' = 0
    /\ UNCHANGED <<Trip, BreadCrumb, txTrip, txBreadCrumb, date_str,
                   clear_existing>>

\* Line 100. When connect raises, conn is still None: the handler and the
\* finally block do nothing and the function returns.
Connect ==
    /\ UNCHANGED <<subscriberVars, collectorVars>>
    /\ pc = "connect"
    /\ \/ /\ conn' = "open"
          /\ pc' = "cursor"
          /\ UNCHANGED obs
       \/ /\ conn' = "None"
          /\ pc' = "done"
          /\ obs' = [obs EXCEPT !.outcome = "error", !.failed = TRUE]
    /\ UNCHANGED <<Trip, BreadCrumb, txTrip, txBreadCrumb, date_str,
                   clear_existing, file, cursor, breadcrumbs_by_trip,
                   trips_data, breadcrumb_data, i, errors>>

\* A run that reads and inserts without purging first.
AfterOpenSkipsPurge(clear) == "read"

\* Where a run goes once the cursor is open (line 107): to the purge when
\* clear_existing is set, before anything is read or inserted.
AfterOpen(clear) == IF clear THEN "purge" ELSE "read"

\* Lines 102-103. When set_session or cursor() raises, the handler rolls back
\* and the finally block reads the unbound local cursor (line 309): that
\* raises before conn.close() (line 311) and leaves the function.
OpenCursor ==
    /\ UNCHANGED <<subscriberVars, collectorVars>>
    /\ pc = "cursor"
    /\ \/ /\ cursor' = "open"
          /\ txTrip' = Trip
          /\ txBreadCrumb' = BreadCrumb
          /\ pc' = AfterOpen(clear_existing)
          /\ UNCHANGED obs
       \/ /\ cursor' = "unbound"
          /\ pc' = "done"
          /\ obs' = [obs EXCEPT !.outcome = "raised", !.failed = TRUE]
          /\ UNCHANGED <<txTrip, txBreadCrumb>>
    /\ UNCHANGED <<Trip, BreadCrumb, date_str, clear_existing, file, conn,
                   breadcrumbs_by_trip, trips_data, breadcrumb_data, i, errors>>

\* remove_existing_data (lines 62-83) and its call (lines 107-111).
Purge ==
    /\ UNCHANGED <<subscriberVars, collectorVars>>
    /\ pc = "purge"
    /\ \/ /\ txBreadCrumb' = DeleteForDate(txBreadCrumb, date_str)
          /\ pc' = "read"
          /\ obs' = [obs EXCEPT !.purge = "ok"]
          /\ UNCHANGED <<conn, cursor>>
       \/ /\ txBreadCrumb' = RollbackToSavepoint(<<txTrip, txBreadCrumb>>,
                                                 <<Trip, BreadCrumb>>)[2]
          /\ obs' = [obs EXCEPT !.purge = "failed", !.failed = TRUE,
                                !.outcome = IF AfterPurgeFailure = "return"
                                            THEN "returned" ELSE @]
          /\ IF AfterPurgeFailure = "return"
             THEN pc' = "done" /\ cursor' = "closed" /\ conn' = "closed"
             ELSE pc' = "read" /\ UNCHANGED <<conn, cursor>>
    /\ UNCHANGED <<Trip, BreadCrumb, txTrip, date_str, clear_existing, file,
                   breadcrumbs_by_trip, trips_data, breadcrumb_data, i, errors>>

\* Lines 113-183: read the file (its lines are whatever the disk holds by
\* then), sort, group. An empty list returns (line 130); an exception of the
\* grouping loop reaches the handler of line 302.
ReadFile ==
    /\ UNCHANGED <<subscriberVars, collectorVars>>
    /\ pc = "read"
    /\ \E lines \in IF file.unchanged THEN {file.lines} ELSE FileContents :
        LET breadcrumbs == ReadLines(lines)
            g == Group(sort(breadcrumbs))
        IN  /\ file' = [file EXCEPT !.lines = lines]
            /\ IF breadcrumbs = <<>>
               THEN /\ pc' = "done"
                    /\ obs' = [obs EXCEPT !.outcome = "returned"]
                    /\ cursor' = "closed"
                    /\ conn' = "closed"
                    /\ UNCHANGED <<breadcrumbs_by_trip, trips_data>>
               ELSE IF g.raised
               THEN /\ pc' = "done"
                    /\ obs' = [obs EXCEPT !.outcome = "rolled_back"]
                    /\ cursor' = "closed"
                    /\ conn' = "closed"
                    /\ UNCHANGED <<breadcrumbs_by_trip, trips_data>>
               ELSE /\ pc' = "trips"
                    /\ UNCHANGED obs
                    /\ breadcrumbs_by_trip' = g.by_trip
                    /\ trips_data' = g.trips
                    /\ UNCHANGED <<cursor, conn>>
    /\ UNCHANGED <<Trip, BreadCrumb, txTrip, txBreadCrumb, date_str,
                   clear_existing, breadcrumb_data, i, errors>>

\* Lines 185-261: the Trip insert in its savepoint scope, then the speed
\* calculation. errors is bound (line 273) only if breadcrumb_data is not
\* empty.
UpsertTrips ==
    /\ UNCHANGED <<subscriberVars, collectorVars>>
    /\ pc = "trips"
    /\ \/ /\ txTrip' = InsertTrips(txTrip, Values(trips_data))
          /\ UNCHANGED txBreadCrumb
          /\ obs' = [obs EXCEPT !.trips = "ok"]
       \/ /\ LET back == RollbackToSavepoint(<<txTrip, txBreadCrumb>>,
                                              <<Trip, BreadCrumb>>)
             IN  txTrip' = back[1] /\ txBreadCrumb' = back[2]
          /\ obs' = [obs EXCEPT !.trips = "failed", !.failed = TRUE]
    /\ breadcrumb_data' = BreadcrumbData(breadcrumbs_by_trip)
    /\ i' = 0
    /\ errors' = 0
    /\ pc' = IF breadcrumb_data' # <<>> THEN "batch" ELSE "verify"
    /\ UNCHANGED <<Trip, BreadCrumb, date_str, clear_existing, file, conn,
                   cursor, breadcrumbs_by_trip, trips_data>>

\* One iteration of the loop of lines 275-288. The store rejects the batch
\* when a row breaks the foreign key, and may reject it for another reason.
InsertBatch ==
    /\ UNCHANGED <<subscriberVars, collectorVars>>
    /\ pc = "batch"
    /\ LET batch == Batch(breadcrumb_data, i)
       IN  \/ /\ ForeignKeyHolds(batch, txTrip)
              /\ txBreadCrumb' = InsertBreadcrumbs(txBreadCrumb, batch)
              /\ UNCHANGED txTrip
              /\ errors' = errors
              /\ obs' = [obs EXCEPT !.batches = Append(@, "ok")]
           \/ /\ LET back == RollbackToSavepoint(<<txTrip, txBreadCrumb>>,
                                                  <<Trip, BreadCrumb>>)
                 IN  txTrip' = back[1] /\ txBreadCrumb' = back[2]
              /\ errors' = CountError(errors)
              /\ obs' = [obs EXCEPT !.batches = Append(@, "failed"),
                                    !.failed = TRUE]
    /\ i' = i + batch_size
    /\ pc' = IF i' < Len(breadcrumb_data) THEN "batch" ELSE "verify"
    /\ UNCHANGED <<Trip, BreadCrumb, date_str, clear_existing, file, conn,
                   cursor, breadcrumbs_by_trip, trips_data, breadcrumb_data>>

\* A function in which errors is bound before the batch block.
ErrorsAlwaysBound(data) == TRUE

\* Whether the local errors is bound when line 295 reads it: it is assigned
\* only inside if breadcrumb_data (lines 264-273).
ErrorsBound(data) == data # <<>>

\* Lines 290-312: the verification query, the read of errors (an unbound
\* local when breadcrumb_data is empty: the handler rolls back), the commit,
\* the finally block.
Commit ==
    /\ UNCHANGED <<subscriberVars, collectorVars>>
    /\ pc = "verify"
    /\ IF ~ErrorsBound(breadcrumb_data)
       THEN /\ obs' = [obs EXCEPT !.outcome = "rolled_back"]
            /\ UNCHANGED <<Trip, BreadCrumb>>
       ELSE /\ Trip' = txTrip
            /\ BreadCrumb' = txBreadCrumb
            /\ obs' = [obs EXCEPT !.outcome = "committed", !.commits = @ + 1]
    /\ pc' = "done"
    /\ cursor' = "closed"
    /\ conn' = "closed"
    /\ UNCHANGED <<txTrip, txBreadCrumb, date_str, clear_existing, file,
                   breadcrumbs_by_trip, trips_data, breadcrumb_data, i, errors>>

\* The store connection is lost while a statement runs: the statement raises,
\* so does any ROLLBACK TO SAVEPOINT of a local handler, and the exception
\* reaches the handler of line 302 and the finally block.
ConnectionLost ==
    /\ UNCHANGED <<subscriberVars, collectorVars>>
    /\ pc \in {"purge", "trips", "batch", "verify"}
    /\ pc' = "done"
    /\ obs' = [obs EXCEPT !.outcome = "connection_lost", !.failed = TRUE]
    /\ cursor' = "closed"
    /\ conn' = "closed"
    /\ UNCHANGED <<Trip, BreadCrumb, txTrip, txBreadCrumb, date_str,
                   clear_existing, file, breadcrumbs_by_trip, trips_data,
                   breadcrumb_data, i, errors>>

Next ==
    \/ Start
    \/ Rerun
    \/ Connect
    \/ OpenCursor
    \/ Purge
    \/ ReadFile
    \/ UpsertTrips
    \/ InsertBatch
    \/ Commit
    \/ ConnectionLost

Spec == Init /\ [][Next]_vars

\* ------------------------------------- the transform alone (SpecT)
\* The aggregation and the speed calculation applied to one day file.
InitT ==
    /\ InitSubscriber
    /\ InitCollector
    /\ file \in FilesT
    /\ pc = "input"
    /\ Trip = {}
    /\ BreadCrumb = EmptyBag
    /\ txTrip = {}
    /\ txBreadCrumb = EmptyBag
    /\ date_str = <<2022, 12, 25>>
    /\ clear_existing = TRUE
    /\ conn = "open"
    /\ cursor = "open"
    /\ breadcrumbs_by_trip = <<>>
    /\ trips_data = <<>>
    /\ breadcrumb_data = <<>>
    /\ i = 0
    /\ errors = 0
    /\ obs = NoObs

\* Lines 113-183.
Aggregate ==
    /\ UNCHANGED <<subscriberVars, collectorVars>>
    /\ pc = "input"
    /\ LET breadcrumbs == ReadLines(file.lines)
           g == Group(sort(breadcrumbs))
       IN  IF breadcrumbs = <<>>
           THEN pc' = "empty" /\ UNCHANGED <<breadcrumbs_by_trip, trips_data>>
           ELSE IF g.raised
           THEN pc' = "raised" /\ UNCHANGED <<breadcrumbs_by_trip, trips_data>>
           ELSE /\ pc' = "grouped"
                /\ breadcrumbs_by_trip' = g.by_trip
                /\ trips_data' = g.trips
    /\ UNCHANGED <<Trip, BreadCrumb, txTrip, txBreadCrumb, date_str,
                   clear_existing, file, conn, cursor, breadcrumb_data, i,
                   errors, obs>>

\* Lines 204-261.
CalculateSpeeds ==
    /\ UNCHANGED <<subscriberVars, collectorVars>>
    /\ pc = "grouped"
    /\ breadcrumb_data' = BreadcrumbData(breadcrumbs_by_trip)
    /\ pc' = "calculated"
    /\ UNCHANGED <<Trip, BreadCrumb, txTrip, txBreadCrumb, date_str,
                   clear_existing, file, conn, cursor, breadcrumbs_by_trip,
                   trips_data, i, errors, obs>>

NextT == Aggregate \/ CalculateSpeeds

SpecT == InitT /\ [][NextT]_vars

\* --------------------- the decoder and the classifier alone (SpecP)
\* Day files of one record, over the ends of months and years, a leap and a
\* common February, a week of consecutive days, the 25th, an unknown month
\* token, days no month has, and action times below, at and past one and two
\* days.
DaysP == (1..7) \cup {25, 28, 29, 30, 31}

MonthsP == {"JAN", "FEB", "DEC", "XXX"}

YearsP == {2022, 2024, 9999}

ActTimesP == {0, 3661, 86399, 86400, 90000, 172800}

RecordsP ==
    {RawBreadcrumb(1, 7, <<d, mon, y>>, act, 0) :
        d \in DaysP, mon \in MonthsP, y \in YearsP, act \in ActTimesP}

FilesP == {[exists |-> TRUE, lines |-> <<r>>, unchanged |-> FALSE] :
              r \in RecordsP}

InitP ==
    /\ InitSubscriber
    /\ InitCollector
    /\ file \in FilesP
    /\ pc = "input"
    /\ Trip = {}
    /\ BreadCrumb = EmptyBag
    /\ txTrip = {}
    /\ txBreadCrumb = EmptyBag
    /\ date_str = <<2022, 12, 25>>
    /\ clear_existing = TRUE
    /\ conn = "open"
    /\ cursor = "open"
    /\ breadcrumbs_by_trip = <<>>
    /\ trips_data = <<>>
    /\ breadcrumb_data = <<>>
    /\ i = 0
    /\ errors = 0
    /\ obs = NoObs

\* Lines 113-261 on the one record: the grouping loop classifies its date
\* (lines 148-181) and the speed loop decodes its timestamp (line 212).
SpecP == InitP /\ [][NextT]_vars

\* ------------------------------------- data_subscriber.py: process_message
\* A handler that acknowledges the message it failed on.
OnExceptionAcks(r) == [r EXCEPT !.acks = @ + 1, !.pc = "done"]

\* The handler of lines 95-98: message.nack().
OnException(r) == [r EXCEPT !.nacks = @ + 1, !.pc = "done"]

\* A statement of the try block raised: control goes to line 95.
Raise(c, what) == cb' = [cb EXCEPT ![c].pc = "except", ![c].failed = what]

\* The subscription hands a message to a free callback thread (line 109).
Deliver(c) ==
    /\ cb[c].pc \in {"idle", "done"}
    /\ delivered < MaxMessages
    /\ delivered' = delivered + 1
    /\ \E data \in Payloads :
          cb' = [cb EXCEPT ![c] = [IdleCallback EXCEPT
                                      !.pc = "parse",
                                      !.message = delivered + 1,
                                      !.data = data]]
    /\ UNCHANGED <<daily_files, handles, disk, now, transformVars,
                 collectorVars>>

\* Lines 70-79: json.loads, then the date of the timestamp (split()[0] of an
\* empty string raises IndexError) or of the clock.
Parse(c) ==
    /\ cb[c].pc = "parse"
    /\ LET data == cb[c].data
       IN  IF ~Decodes(data) THEN Raise(c, "parse")
           ELSE IF "timestamp" \in DOMAIN data
           THEN IF data.timestamp = <<>> THEN Raise(c, "parse")
                ELSE cb' = [cb EXCEPT ![c].pc = "lookup",
                                      ![c].date_str = data.timestamp[1]]
           ELSE cb' = [cb EXCEPT ![c].pc = "lookup", ![c].date_str = now]
    /\ UNCHANGED <<daily_files, handles, disk, now, delivered, transformVars,
                 collectorVars>>

\* get_daily_file, line 51: is the date a key of daily_files?
LookupFile(c) ==
    /\ cb[c].pc = "lookup"
    /\ cb' = [cb EXCEPT ![c].pc = IF daily_files[cb[c].date_str] # 0
                                  THEN "return" ELSE "open"]
    /\ UNCHANGED <<daily_files, handles, disk, now, delivered, transformVars,
                 collectorVars>>

\* get_daily_file, lines 52-54: open(filename, 'a') raises, or returns a new
\* file object that is stored under the date.
OpenFile(c) ==
    /\ cb[c].pc = "open"
    /\ \/ /\ Raise(c, "open")
          /\ UNCHANGED <<daily_files, handles>>
       \/ /\ handles' = Append(handles, [date |-> cb[c].date_str,
                                         closed |-> FALSE, buffer |-> <<>>])
          /\ daily_files' = [daily_files EXCEPT
                                ![cb[c].date_str] = Len(handles) + 1]
          /\ cb' = [cb EXCEPT ![c].pc = "return"]
    /\ UNCHANGED <<disk, now, delivered, transformVars,
                 collectorVars>>

\* get_daily_file, line 56: daily_files[date_str] (KeyError if the key is
\* gone), bound to file_handle on line 82.
ReturnFile(c) ==
    /\ cb[c].pc = "return"
    /\ IF daily_files[cb[c].date_str] = 0 THEN Raise(c, "open")
       ELSE cb' = [cb EXCEPT ![c].pc = "write",
                             ![c].file_handle = daily_files[cb[c].date_str]]
    /\ UNCHANGED <<daily_files, handles, disk, now, delivered, transformVars,
                 collectorVars>>

\* Line 85: write on a closed file raises ValueError; an open file takes the
\* line into its buffer, or raises OSError.
Write(c) ==
    /\ cb[c].pc = "write"
    /\ LET h == cb[c].file_handle
       IN  IF handles[h].closed
           THEN Raise(c, "write") /\ UNCHANGED handles
           ELSE \/ Raise(c, "write") /\ UNCHANGED handles
                \/ /\ handles' = [handles EXCEPT ![h].buffer =
                                     Append(@, [line |-> cb[c].data,
                                                message |-> cb[c].message])]
                   /\ cb' = [cb EXCEPT ![c].pc = "flush"]
    /\ UNCHANGED <<daily_files, disk, now, delivered, transformVars,
                 collectorVars>>

\* Line 86: flush on a closed file raises ValueError; an open file appends
\* its buffer to the day file, or raises OSError.
Flush(c) ==
    /\ cb[c].pc = "flush"
    /\ LET h == cb[c].file_handle
       IN  IF handles[h].closed
           THEN Raise(c, "flush") /\ UNCHANGED <<handles, disk>>
           ELSE \/ Raise(c, "flush") /\ UNCHANGED <<handles, disk>>
                \/ /\ disk' = [disk EXCEPT ![handles[h].date] =
                                              @ \o handles[h].buffer]
                   /\ handles' = [handles EXCEPT ![h].buffer = <<>>]
                   /\ cb' = [cb EXCEPT ![c].pc = "ack"]
    /\ UNCHANGED <<daily_files, now, delivered, transformVars,
                 collectorVars>>

\* Line 89: message.ack().
Ack(c) ==
    /\ cb[c].pc = "ack"
    /\ cb' = [cb EXCEPT ![c].acks = @ + 1, ![c].pc = "clock"]
    /\ UNCHANGED <<daily_files, handles, disk, now, delivered, transformVars,
                 collectorVars>>

\* Lines 92 and 60: the date of the clock, and the list of the dict's items;
\* olds keeps those of another date, which the loop acts on.
ListOldFiles(c) ==
    /\ cb[c].pc = "clock"
    /\ cb' = [cb EXCEPT
                ![c].pc = "close_old",
                ![c].olds = {<<d, daily_files[d]>> :
                                d \in {e \in DatesS : daily_files[e] # 0
                                                      /\ e # now}}]
    /\ UNCHANGED <<daily_files, handles, disk, now, delivered, transformVars,
                 collectorVars>>

\* close_old_files, lines 60-64, one iteration: close() writes the buffer out
\* and closes (nothing on a closed file), or raises OSError; del raises
\* KeyError when the key is gone. The loop over, process_message returns.
CloseOldFile(c) ==
    /\ cb[c].pc = "close_old"
    /\ IF cb[c].olds = {}
       THEN /\ cb' = [cb EXCEPT ![c].pc = "done"]
            /\ UNCHANGED <<daily_files, handles, disk>>
       ELSE \E item \in cb[c].olds :
            LET d == item[1]
                h == item[2]
            IN  \/ /\ ~handles[h].closed
                   /\ handles' = [handles EXCEPT ![h].closed = TRUE,
                                                 ![h].buffer = <<>>]
                   /\ Raise(c, "close")
                   /\ UNCHANGED <<daily_files, disk>>
                \/ /\ handles' = [handles EXCEPT ![h].closed = TRUE,
                                                 ![h].buffer = <<>>]
                   /\ disk' = [disk EXCEPT ![handles[h].date] =
                                              @ \o handles[h].buffer]
                   /\ IF daily_files[d] = 0
                      THEN Raise(c, "close") /\ UNCHANGED daily_files
                      ELSE /\ daily_files' = [daily_files EXCEPT ![d] = 0]
                           /\ cb' = [cb EXCEPT ![c].olds = @ \ {item}]
    /\ UNCHANGED <<now, delivered, transformVars,
                 collectorVars>>

\* Lines 95-98.
Except(c) ==
    /\ cb[c].pc = "except"
    /\ cb' = [cb EXCEPT ![c] = OnException(@)]
    /\ UNCHANGED <<daily_files, handles, disk, now, delivered, transformVars,
                 collectorVars>>

\* Midnight passes: datetime.datetime.now() is of the next date.
Midnight ==
    /\ now = "2025-04-13"
    /\ now' = "2025-04-14"
    /\ UNCHANGED <<daily_files, handles, disk, delivered, cb, transformVars,
                 collectorVars>>

NextS ==
    \/ \E c \in Callbacks :
          \/ Deliver(c)
          \/ Parse(c)
          \/ LookupFile(c)
          \/ OpenFile(c)
          \/ ReturnFile(c)
          \/ Write(c)
          \/ Flush(c)
          \/ Ack(c)
          \/ ListOldFiles(c)
          \/ CloseOldFile(c)
          \/ Except(c)
    \/ Midnight

SpecS == Init /\ [][NextS]_vars

\* ------------------------------------------------- publish_to_pubsub
\* data_collector.py, one call of publish_to_pubsub(records). A future is the
\* index of the record it was published for; whether it succeeds is known
\* when future.result() returns or raises.

\* The test of line 111 with a threshold no list reaches.
BatchNeverFull(fs) == FALSE

\* Line 111: len(futures) >= PUBSUB_BATCH_SIZE.
BatchFull(fs) == Len(fs) >= PUBSUB_BATCH_SIZE

\* Line 142: the value the except handler returns.
FatalResult(recs) == <<0, IF recs # <<>> THEN Len(recs) ELSE 0>>

\* Lines 136-142: an exception of the try block ends the call.
OnFatal ==
    /\ publish_pc' = "returned"
    /\ returned' = FatalResult(records)

\* Lines 81-88: the call; an empty list returns (0, 0) at once.
Call ==
    /\ publish_pc = "idle"
    /\ \E n \in 0..MaxRecords :
          /\ records' = [k \in 1..n |-> k]
          /\ IF n = 0
             THEN publish_pc' = "returned" /\ returned' = <<0, 0>>
             ELSE publish_pc' = "init" /\ UNCHANGED returned
    /\ UNCHANGED <<next_record, futures, awaited, published_count,
                   error_count, transformVars, subscriberVars>>

\* Lines 92-99: the publisher client is created (or raises) and the counts
\* and the list of futures are initialised.
InitPublisher ==
    /\ publish_pc = "init"
    /\ \/ /\ OnFatal
          /\ UNCHANGED <<next_record, futures, awaited, published_count,
                         error_count>>
       \/ /\ published_count' = 0
          /\ error_count' = 0
          /\ futures' = <<>>
          /\ awaited' = 0
          /\ next_record' = 1
          /\ publish_pc' = "loop"
          /\ UNCHANGED returned
    /\ UNCHANGED <<records, transformVars, subscriberVars>>

\* Lines 102-111, one iteration: the record is encoded and published (either
\* may raise) and its future appended; a full list is awaited next. With no
\* record left the remaining futures are awaited (line 122).
Publish ==
    /\ publish_pc = "loop"
    /\ IF next_record > Len(records)
       THEN /\ publish_pc' = "rest"
            /\ awaited' = 0
            /\ UNCHANGED <<next_record, futures, returned>>
       ELSE \/ /\ OnFatal
               /\ UNCHANGED <<next_record, futures, awaited>>
            \/ /\ futures' = Append(futures, next_record)
               /\ next_record' = next_record + 1
               /\ publish_pc' = IF BatchFull(futures') THEN "batch"
                                                       ELSE "loop"
               /\ awaited' = 0
               /\ UNCHANGED returned
    /\ UNCHANGED <<records, published_count, error_count, transformVars,
                   subscriberVars>>

\* Lines 113-118 and 123-128: future.result() returns or raises, and one of
\* the counts grows.
AwaitOne ==
    /\ awaited' = awaited + 1
    /\ \/ /\ published_count' = published_count + 1
          /\ UNCHANGED error_count
       \/ /\ error_count' = error_count + 1
          /\ UNCHANGED published_count

\* Lines 112-119: the futures of a full list are awaited in turn, then the
\* list is cleared and the loop of line 102 goes on.
AwaitBatch ==
    /\ publish_pc = "batch"
    /\ IF awaited < Len(futures)
       THEN AwaitOne /\ UNCHANGED <<futures, publish_pc>>
       ELSE /\ futures' = <<>>
            /\ awaited' = 0
            /\ publish_pc' = "loop"
            /\ UNCHANGED <<published_count, error_count>>
    /\ UNCHANGED <<records, next_record, returned, transformVars,
                   subscriberVars>>

\* Lines 122-134: the remaining futures are awaited in turn, then the counts
\* are returned.
AwaitRest ==
    /\ publish_pc = "rest"
    /\ IF awaited < Len(futures)
       THEN AwaitOne /\ UNCHANGED <<publish_pc, returned>>
       ELSE /\ publish_pc' = "returned"
            /\ returned' = <<published_count, error_count>>
            /\ UNCHANGED <<awaited, published_count, error_count>>
    /\ UNCHANGED <<records, next_record, futures, transformVars,
                   subscriberVars>>

NextC ==
    \/ Call
    \/ InitPublisher
    \/ Publish
    \/ AwaitBatch
    \/ AwaitRest

SpecC == Init /\ [][NextC]_vars

\* ------------------------------------------------------------ claims
\* The stored rows of a trip, in breadcrumb_data order.
RowsOf(trip_id) == SelectSeq(breadcrumb_data, LAMBDA row : row[5] = trip_id)

HasTimestamp(bc) == parse_timestamp(bc.OPD_DATE, bc.ACT_TIME) # None

\* The position among a trip's stored rows of the record at position n of the
\* trip's sorted sequence tb (a record with no timestamp stores no row).
RowIndex(tb, n) == Len(SelectSeq(SubSeq(tb, 1, n), HasTimestamp))

\* The batches a run with this breadcrumb_data attempts (line 275).
NumBatches == (Len(breadcrumb_data) + batch_size - 1) \div batch_size

\* The rows of the batches of this run that the store accepted so far.
RECURSIVE AcceptedRows(_)
AcceptedRows(n) ==
    IF n = 0 THEN EmptyBag
    ELSE AcceptedRows(n - 1)
         (+) (IF obs.batches[n] = "ok"
              THEN BagOf(Batch(breadcrumb_data, (n - 1) * batch_size))
              ELSE EmptyBag)

FailedBatches == Len(SelectSeq(obs.batches, LAMBDA b : b = "failed"))

\* The BreadCrumb table the run's transaction starts its inserts from: the
\* committed table of the run's start, less the purged date if it purged.
StagedPurge ==
    IF obs.purge = "ok" THEN DeleteForDate(obs.preBreadCrumb, date_str)
    ELSE obs.preBreadCrumb

\* A fatal error ended the run: the connection failed or was lost, or an
\* exception reached the handler of line 302.
FatalEnd == obs.outcome \in {"error", "raised", "rolled_back", "connection_lost"}

\* C1: a committed, failure-free run that repeats the committed, failure-free
\* run before it (same date, same file, purging) leaves the committed Trip
\* and BreadCrumb rows exactly as that run left them.
C1_RerunIsIdempotent ==
    (pc = "done" /\ obs.rerun /\ Clean(obs))
        => (Trip = obs.preTrip /\ BreadCrumb = obs.preBreadCrumb)

\* C2: for every trip with at least two points (each of which is stored),
\* the speed stored for its earliest point equals the speed stored for its
\* second-earliest point, whatever other trips the batch holds.
C2_FirstSpeedIsSecondSpeed ==
    pc = "calculated" =>
        \A k \in 1..Len(breadcrumbs_by_trip) :
            LET rows == RowsOf(breadcrumbs_by_trip[k][1])
            IN  (Len(breadcrumbs_by_trip[k][2]) >= 2
                 /\ Len(rows) = Len(breadcrumbs_by_trip[k][2]))
                    => rows[1][4] = rows[2][4]

\* C3: for every trip with exactly one point, the speed stored for that point
\* is null, whatever other trips the batch holds.
C3_SinglePointSpeedIsNull ==
    pc = "calculated" =>
        \A k \in 1..Len(breadcrumbs_by_trip) :
            LET rows == RowsOf(breadcrumbs_by_trip[k][1])
            IN  (Len(breadcrumbs_by_trip[k][2]) = 1 /\ Len(rows) = 1)
                    => rows[1][4] = None

\* C4: for every point at index i > 0 of a trip's sorted sequence, the stored
\* speed is (meters[i] - meters[i-1]) / (time[i] - time[i-1]) when the time
\* delta is strictly positive and null otherwise (so no division by zero
\* produced it).
C4_SpeedIsFiniteDifference ==
    pc = "calculated" =>
        \A k \in 1..Len(breadcrumbs_by_trip) :
            LET tb == breadcrumbs_by_trip[k][2]
                rows == RowsOf(breadcrumbs_by_trip[k][1])
            IN  \A n \in 2..Len(tb) :
                    HasTimestamp(tb[n]) =>
                        LET dm == tb[n].METERS - tb[n - 1].METERS
                            dt == tb[n].ACT_TIME - tb[n - 1].ACT_TIME
                        IN  rows[RowIndex(tb, n)][4]
                                = IF dt > 0 THEN Divide(dm, dt) ELSE None

\* C5: a run commits at most once, only after the purge (when requested), the
\* trip upsert and every breadcrumb batch have been attempted, and only if no
\* fatal error occurred; after a fatal error or a failed purge the committed
\* store is the store of the run's start and the connection is released.
C5_CommitOnceElseRollbackAndRelease ==
    /\ obs.commits <= 1
    /\ obs.commits = 1 =>
          /\ clear_existing => obs.purge = "ok"
          /\ obs.trips # "no"
          /\ Len(obs.batches) = NumBatches
          /\ ~FatalEnd
    /\ (pc = "done" /\ (FatalEnd \/ obs.purge = "failed")) =>
          /\ Trip = obs.preTrip
          /\ BreadCrumb = obs.preBreadCrumb
          /\ conn # "open"

\* C6: when the purge fails, the transaction is back at the purge savepoint
\* (nothing else is undone, nothing of the purge is kept), the run has ended,
\* and no Trip or BreadCrumb insert was attempted or committed in it.
C6_PurgeFailureAborts ==
    obs.purge = "failed" =>
        /\ pc = "done"
        /\ txBreadCrumb = obs.preBreadCrumb
        /\ txTrip = obs.preTrip
        /\ obs.trips = "no"
        /\ obs.batches = <<>>
        /\ obs.commits = 0
        /\ Trip = obs.preTrip
        /\ BreadCrumb = obs.preBreadCrumb

\* C6 witness: a purge failed in a run whose date had committed rows to purge.
C6_Witness ==
    /\ obs.purge = "failed"
    /\ \E r \in DOMAIN obs.preBreadCrumb : DATE(r[1]) = date_str

\* C7: a failed batch is rolled back alone and counted once; the later batches
\* are attempted and the run commits unless a fatal error ends it: the
\* transaction holds the staged purge plus exactly the rows of the accepted
\* batches, the tally is the number of failed batches, and a committed run
\* has attempted every batch and persisted exactly that table.
C7_BatchFailureIsLocal ==
    (obs.batches # <<>>) =>
        /\ errors = FailedBatches
        /\ txBreadCrumb = StagedPurge (+) AcceptedRows(Len(obs.batches))
        /\ pc = "done" =>
              /\ obs.outcome \in {"committed", "connection_lost"}
              /\ obs.outcome = "committed" =>
                    /\ Len(obs.batches) = NumBatches
                    /\ BreadCrumb = StagedPurge (+) AcceptedRows(NumBatches)

\* C7 witness: a committed run whose first batch failed and whose second batch
\* was accepted, with rows purged before.
C7_Witness ==
    /\ pc = "done"
    /\ obs.outcome = "committed"
    /\ obs.batches = <<"failed", "ok">>
    /\ errors = 1
    /\ StagedPurge # obs.preBreadCrumb

\* C8: when the Trip insert fails, the transaction's Trip table is back at
\* the trip savepoint, the staged purge is kept, every breadcrumb batch is
\* attempted, and the run commits unless a fatal error ends it.
C8_TripFailureIsLocal ==
    obs.trips = "failed" =>
        /\ txTrip = obs.preTrip
        /\ txBreadCrumb = StagedPurge (+) AcceptedRows(Len(obs.batches))
        /\ pc \in {"batch", "verify", "done"}
        /\ pc = "verify" => Len(obs.batches) = NumBatches
        /\ pc = "done" => (obs.outcome = "committed" \/ FatalEnd)
        /\ (pc = "done" /\ obs.outcome = "committed") =>
              /\ Len(obs.batches) = NumBatches
              /\ Trip = obs.preTrip
              /\ BreadCrumb = StagedPurge (+) AcceptedRows(NumBatches)

\* C8 witness: a committed run whose Trip insert failed, whose purge removed
\* rows, and which had a breadcrumb batch accepted.
C8_Witness ==
    /\ pc = "done"
    /\ obs.outcome = "committed"
    /\ obs.trips = "failed"
    /\ obs.purge = "ok"
    /\ StagedPurge # obs.preBreadCrumb
    /\ \E n \in 1..Len(obs.batches) : obs.batches[n] = "ok"

\* C9: every committed BreadCrumb row's trip_id is the trip_id of a committed
\* Trip row.
C9_BreadcrumbReferencesTrip ==
    \A r \in DOMAIN BreadCrumb : r[5] \in TripIds(Trip)

\* C9 witness: a run whose Trip insert failed committed breadcrumbs, after
\* one of its batches was rejected.
C9_Witness ==
    /\ pc = "done"
    /\ obs.outcome = "committed"
    /\ obs.trips = "failed"
    /\ BreadCrumb # obs.preBreadCrumb
    /\ \E n \in 1..Len(obs.batches) : obs.batches[n] = "failed"

\* C10: every Trip row committed before a run is committed unchanged during
\* and after it (and is unchanged inside its transaction), and no two Trip
\* rows share a trip_id.
C10_TripRowsAreNeverTouched ==
    /\ obs.preTrip \subseteq Trip
    /\ pc \notin {"idle", "connect", "cursor"} => obs.preTrip \subseteq txTrip
    /\ \A t1, t2 \in Trip : t1[1] = t2[1] => t1 = t2
    /\ \A t1, t2 \in txTrip : t1[1] = t2[1] => t1 = t2

\* C10 witness: a committed run whose Trip insert succeeded although the
\* batch derived, for a trip_id already stored, other values than the stored.
C10_Witness ==
    /\ pc = "done"
    /\ obs.outcome = "committed"
    /\ obs.trips = "ok"
    /\ \E t \in obs.preTrip : \E k \in 1..Len(trips_data) :
          trips_data[k][2][1] = t[1] /\ trips_data[k][2] # t

\* Order of two datetimes <<year, month, day, hour, minute, second>>.
RECURSIVE TupleLess(_, _, _)
TupleLess(a, b, k) ==
    IF k > Len(a) THEN FALSE
    ELSE a[k] < b[k] \/ (a[k] = b[k] /\ TupleLess(a, b, k + 1))

TsLess(a, b) == TupleLess(a, b, 1)

\* C11: within each trip, the breadcrumb rows a run produces are strictly
\* ordered by timestamp: of any two consecutive rows of the same trip the
\* later one's timestamp is strictly greater, for every day file (duplicated
\* records and records of one trip with different OPD_DATE included).
C11_TimestampsStrictlyIncrease ==
    pc = "calculated" =>
        \A k \in 1..Len(breadcrumbs_by_trip) :
            LET rows == RowsOf(breadcrumbs_by_trip[k][1])
            IN  \A n \in 2..Len(rows) : TsLess(rows[n - 1][1], rows[n][1])

\* A record whose OPD_DATE cannot be decoded (lines 149-161 raise on it).
Malformed(line) == Decodes(line) /\ TripTuple(line) = None

\* A record that decodes to a timestamp.
Valid(line) == Decodes(line) /\ HasTimestamp(line)

\* C12: a run that the store does not fail, on a day file holding a malformed
\* record and valid records, drops the malformed record and goes on: it
\* commits, and the committed BreadCrumb table holds a row for every valid
\* record.
C12_MalformedRecordIsDropped ==
    (/\ pc = "done"
     /\ ~obs.failed
     /\ \E n \in 1..Len(file.lines) : Malformed(file.lines[n])
     /\ \E n \in 1..Len(file.lines) : Valid(file.lines[n]))
        => /\ obs.outcome = "committed"
           /\ \A n \in 1..Len(file.lines) :
                 Valid(file.lines[n]) =>
                    \E r \in DOMAIN BreadCrumb :
                        /\ r[1] = parse_timestamp(file.lines[n].OPD_DATE,
                                                  file.lines[n].ACT_TIME)
                        /\ r[5] = file.lines[n].EVENT_NO_TRIP

\* datetime.max.toordinal(): the last day a datetime can hold.
MaxOrdinal == Ordinal(9999, 12, 31)

\* The instant the decoder is said to return for a record: its date is the
\* operating date plus ACT_TIME div 86400 days (counted in ordinals), its
\* time of day is ACT_TIME mod 86400 in hours, minutes and seconds.
IsInstantOf(ts, y, m, d, act) ==
    /\ ts # None
    /\ ValidDate(ts[1], ts[2], ts[3])
    /\ Ordinal(ts[1], ts[2], ts[3]) = Ordinal(y, months[m], d) + (act \div 86400)
    /\ ts[4] \in 0..23 /\ ts[5] \in 0..59 /\ ts[6] \in 0..59
    /\ ts[4] * 3600 + ts[5] * 60 + ts[6] = act % 86400
    /\ act < 86400 => DATE(ts) = <<y, months[m], d>>

\* The timestamp stored for the one record of the day file (None if the
\* record stored no row).
StoredTimestamp == IF breadcrumb_data = <<>> THEN None ELSE breadcrumb_data[1][1]

\* C13 (original statement): for every valid OPD_DATE and every non-negative
\* ACT_TIME the decoder returns the instant of that date plus
\* floor(ACT_TIME/86400) days at ACT_TIME mod 86400 seconds of the day.
C13_DecodesEveryValidPair ==
    pc = "calculated" =>
        LET bc == file.lines[1]
        IN  IsInstantOf(StoredTimestamp, bc.OPD_DATE[3], bc.OPD_DATE[2],
                        bc.OPD_DATE[1], bc.ACT_TIME)

\* C13 (amended): for every valid OPD_DATE and every non-negative ACT_TIME
\* whose instant is not past 9999-12-31, the decoder returns the instant of
\* that date plus floor(ACT_TIME/86400) days at ACT_TIME mod 86400 seconds of
\* the day (so the date is the OPD_DATE's when ACT_TIME < 86400); past that
\* day it returns None and the record stores no row.
C13_DecodesWithinRange ==
    pc = "calculated" =>
        LET bc == file.lines[1]
            y == bc.OPD_DATE[3]
            m == bc.OPD_DATE[2]
            d == bc.OPD_DATE[1]
            act == bc.ACT_TIME
        IN  /\ m \in DOMAIN months /\ ValidDate(y, months[m], d) /\ act >= 0
            /\ IF Ordinal(y, months[m], d) + (act \div 86400) <= MaxOrdinal
               THEN /\ Len(breadcrumb_data) = 1
                    /\ IsInstantOf(StoredTimestamp, y, m, d, act)
               ELSE StoredTimestamp = None

\* C13 witness: (25DEC2022, 90000) was decoded to 2022-12-26 01:00:00.
C13_Witness ==
    /\ pc = "calculated"
    /\ file.lines[1].OPD_DATE = <<25, "DEC", 2022>>
    /\ file.lines[1].ACT_TIME = 90000
    /\ StoredTimestamp = <<2022, 12, 26, 1, 0, 0>>

\* The days from Sunday 2022-12-25 to a date, modulo the week: 0 on a
\* Sunday, 6 on a Saturday.
DaysPastSunday(y, m, d) == (Ordinal(y, m, d) - Ordinal(2022, 12, 25)) % 7

\* C14: the service key is a total function of the day of the week of the
\* record's operating date: every valid date is classified, Saturday on a
\* Saturday, Sunday on a Sunday, Weekday on each of the five other days.
C14_ServiceKeyByDayOfWeek ==
    LET bc == file.lines[1]
        y == bc.OPD_DATE[3]
        m == bc.OPD_DATE[2]
        d == bc.OPD_DATE[1]
        valid == m \in DOMAIN months /\ ValidDate(y, months[m], d)
    IN  /\ pc = "raised" => ~valid
        /\ pc = "grouped" =>
              /\ valid
              /\ Len(trips_data) = 1
              /\ trips_data[1][2][4] =
                    (IF DaysPastSunday(y, months[m], d) = 6 THEN "Saturday"
                     ELSE IF DaysPastSunday(y, months[m], d) = 0 THEN "Sunday"
                     ELSE "Weekday")

\* C14 witness: the trip of a record of Saturday 2022-12-03 was classified
\* Saturday.
C14_Witness ==
    /\ pc = "grouped"
    /\ file.lines[1].OPD_DATE = <<3, "DEC", 2022>>
    /\ trips_data[1][2][4] = "Saturday"

\* C15: when no day file exists for the requested date the run is skipped:
\* it has ended, no connection was opened, no purge was issued, nothing was
\* inserted or committed, and the committed Trip and BreadCrumb rows are
\* those of the run's start.
C15_MissingFileIsSkipped ==
    (obs.run > 0 /\ ~file.exists) =>
        /\ pc = "done"
        /\ obs.outcome = "skipped"
        /\ conn = "None"
        /\ cursor = "unbound"
        /\ obs.purge = "no"
        /\ obs.trips = "no"
        /\ obs.batches = <<>>
        /\ obs.commits = 0
        /\ Trip = obs.preTrip
        /\ BreadCrumb = obs.preBreadCrumb

\* C15 witness: a purging run found no day file for a date that has committed
\* rows.
C15_Witness ==
    /\ obs.outcome = "skipped"
    /\ clear_existing
    /\ \E r \in DOMAIN BreadCrumb : DATE(r[1]) = date_str

\* C16: a message is acknowledged only after its record is written and
\* flushed to the day file of its date, and a message on which parsing,
\* opening or writing (the write or the flush) failed goes to the handler,
\* which negatively acknowledges it, and is never acknowledged.
C16_AckAfterFlushNackOnFailure ==
    \A c \in Callbacks :
        /\ cb[c].acks > 0 =>
              /\ cb[c].date_str \in DatesS
              /\ \E n \in 1..Len(disk[cb[c].date_str]) :
                    disk[cb[c].date_str][n] =
                        [line |-> cb[c].data, message |-> cb[c].message]
        /\ cb[c].failed \in {"parse", "open", "write", "flush"} =>
              /\ cb[c].acks = 0
              /\ cb[c].pc \in {"except", "done"}
              /\ cb[c].pc = "done" => cb[c].nacks = 1

\* C16 witness: one message was written, flushed and acknowledged, and
\* another, whose write failed, was negatively acknowledged.
C16_Witness ==
    \E c1, c2 \in Callbacks :
        /\ cb[c1].pc = "done" /\ cb[c1].acks = 1 /\ cb[c1].nacks = 0
        /\ cb[c2].pc = "done" /\ cb[c2].failed = "write" /\ cb[c2].nacks = 1

\* What the caller of process_day_file (main, line 336) gets back: every
\* return statement and the handler of line 302 hand back None; only an
\* exception raised inside the finally block (the unbound cursor of line 309)
\* leaves the function.
Result(outcome) == IF outcome = "raised" THEN "UnboundLocalError" ELSE "None"

\* C17: when a fatal error ends a run (the purge failed, the connection was
\* lost, the connection or the transaction could not be opened), the caller
\* of process_day_file gets a result that differs from the result of a
\* committed run.
C17_FatalErrorReachesCaller ==
    (/\ pc = "done"
     /\ \/ obs.purge = "failed"
        \/ obs.outcome \in {"error", "raised", "connection_lost"})
        => Result(obs.outcome) # Result("committed")

\* C18: a record with no timestamp is taken out of its trip's sequence before
\* the speeds are computed: it stores no row, and the speed stored for every
\* later point of the trip is the finite difference against the preceding
\* record that has a timestamp (null when that time delta is not positive).
C18_SpeedsOverValidRecords ==
    pc = "calculated" =>
        \A k \in 1..Len(breadcrumbs_by_trip) :
            LET valid == SelectSeq(breadcrumbs_by_trip[k][2], HasTimestamp)
                rows == RowsOf(breadcrumbs_by_trip[k][1])
            IN  /\ Len(rows) = Len(valid)
                /\ \A n \in 2..Len(valid) :
                      LET dm == valid[n].METERS - valid[n - 1].METERS
                          dt == valid[n].ACT_TIME - valid[n - 1].ACT_TIME
                      IN  rows[n][4] = IF dt > 0 THEN Divide(dm, dt) ELSE None

\* C19: a run for date D deletes and inserts only BreadCrumb rows whose
\* timestamp's date is D: of every row of another date the committed table
\* holds, after the run, as many copies as at the run's start.
C19_OtherDatesUntouched ==
    pc = "done" =>
        \A r \in DOMAIN BreadCrumb \cup DOMAIN obs.preBreadCrumb :
            DATE(r[1]) # date_str =>
                CopiesIn(r, BreadCrumb) = CopiesIn(r, obs.preBreadCrumb)

\* The records of a list that have a trip id, and of those the ones with an
\* action time, in list order.
OfTrip(bcs, trip_id) == SelectSeq(bcs, LAMBDA bc : bc.EVENT_NO_TRIP = trip_id)

AtTime(bcs, act_time) == SelectSeq(bcs, LAMBDA bc : bc.ACT_TIME = act_time)

\* C20: when the aggregation completes, both dicts have exactly one entry per
\* distinct trip id of the batch; a trip's sequence holds exactly the batch's
\* records of that trip, in ascending ACT_TIME order, records of equal
\* ACT_TIME in input order; and its Trip summary is built from the first
\* record of that sequence: its vehicle, the service-day class of its
\* operating date, no route. The aggregation completes on every batch whose
\* records all have a decodable operating date.
C20_OneTripPerIdFromFirstRecord ==
    LET batch == ReadLines(file.lines)
        ids == {batch[n].EVENT_NO_TRIP : n \in 1..Len(batch)}
    IN  /\ (pc = "raised") => \E n \in 1..Len(batch) : Malformed(batch[n])
        /\ (pc \in {"grouped", "calculated"}) =>
              /\ Len(trips_data) = Cardinality(ids)
              /\ Len(breadcrumbs_by_trip) = Cardinality(ids)
              /\ {trips_data[k][1] : k \in 1..Len(trips_data)} = ids
              /\ \A k \in 1..Len(breadcrumbs_by_trip) :
                    LET trip_id == breadcrumbs_by_trip[k][1]
                        seq == breadcrumbs_by_trip[k][2]
                        first == seq[1]
                        summary == trips_data[IndexOf(trips_data, trip_id)][2]
                    IN  /\ trip_id \in ids
                        /\ Len(seq) = Len(OfTrip(batch, trip_id))
                        /\ \A n \in 2..Len(seq) :
                              seq[n - 1].ACT_TIME <= seq[n].ACT_TIME
                        /\ \A n \in 1..Len(seq) :
                              AtTime(seq, seq[n].ACT_TIME)
                                 = AtTime(OfTrip(batch, trip_id), seq[n].ACT_TIME)
                        /\ summary =
                              <<trip_id, None, first.VEHICLE_ID,
                                service_key(Weekday(first.OPD_DATE[3],
                                                    months[first.OPD_DATE[2]],
                                                    first.OPD_DATE[1])),
                                "Out">>

\* C20 witness: a batch that starts with a record of trip 2 was aggregated
\* into two trips, one of which has two different records of equal ACT_TIME
\* and another operating date on a later record than on its first.
C20_Witness ==
    /\ pc = "grouped"
    /\ Len(trips_data) = 2
    /\ file.lines[1].EVENT_NO_TRIP = 2
    /\ \E k \in 1..Len(breadcrumbs_by_trip) :
          LET seq == breadcrumbs_by_trip[k][2]
          IN  /\ Len(seq) = 3
              /\ seq[1].ACT_TIME = seq[2].ACT_TIME
              /\ seq[1] # seq[2]
              /\ seq[3].OPD_DATE # seq[1].OPD_DATE

\* C21: in a run with purging enabled, the purge has completed (its DELETE ran
\* and its savepoint was released) before any Trip or BreadCrumb insert of the
\* run is attempted, and no delete is issued after the first insert: while
\* the purge is still to run, nothing was inserted and the transaction holds
\* the store of the run's start.
C21_PurgeBeforeInserts ==
    /\ (clear_existing /\ (obs.trips # "no" \/ obs.batches # <<>>)) =>
          /\ obs.purge = "ok"
          /\ pc \notin {"connect", "cursor", "purge"}
    /\ pc = "purge" =>
          /\ obs.trips = "no"
          /\ obs.batches = <<>>
          /\ txTrip = obs.preTrip
          /\ txBreadCrumb = obs.preBreadCrumb

\* C21 witness: a purging run whose purge removed rows went on to insert
\* trips and a breadcrumb batch, and committed.
C21_Witness ==
    /\ pc = "done"
    /\ obs.outcome = "committed"
    /\ clear_existing
    /\ obs.purge = "ok"
    /\ StagedPurge # obs.preBreadCrumb
    /\ obs.trips = "ok"
    /\ \E n \in 1..Len(obs.batches) : obs.batches[n] = "ok"

\* C22: a run whose day file exists and holds no valid record (no line, or
\* only lines that do not decode or records with no timestamp) commits
\* nothing: the committed Trip and BreadCrumb tables are those of the run's
\* start, the rows of the run's date that its purge deleted in the
\* transaction included.
C22_NoValidRecordNoChange ==
    (/\ pc = "done"
     /\ obs.run > 0
     /\ file.exists
     /\ \A n \in 1..Len(file.lines) : ~Valid(file.lines[n]))
        => /\ obs.commits = 0
           /\ Trip = obs.preTrip
           /\ BreadCrumb = obs.preBreadCrumb

\* C22 witness: a run purged committed rows of its date in its transaction,
\* then read a day file of lines that do not decode, and returned.
C22_Witness ==
    /\ pc = "done"
    /\ obs.outcome = "returned"
    /\ obs.purge = "ok"
    /\ StagedPurge # obs.preBreadCrumb
    /\ file.lines # <<>>
    /\ \A n \in 1..Len(file.lines) : ~Decodes(file.lines[n])
    /\ BreadCrumb = obs.preBreadCrumb

\* C23: every message process_message handles is settled exactly once: ack()
\* and nack() are never both called for it, neither is called twice, and one
\* of them has been called when the callback is over.
C23_SettledExactlyOnce ==
    \A c \in Callbacks :
        /\ cb[c].acks + cb[c].nacks <= 1
        /\ cb[c].pc = "done" => cb[c].acks + cb[c].nacks = 1

\* C24: with process_message callbacks running concurrently on daily_files, no
\* callback is about to write to or flush a file handle that another
\* callback's close_old_files has closed (a callback's own close comes after
\* its write), and each date has at most one open handle.
C24_NoWriteAfterCloseOneHandlePerDate ==
    /\ \A c \in Callbacks :
          (cb[c].pc \in {"write", "flush"}
              /\ cb[c].file_handle \in 1..Len(handles))
             => ~handles[cb[c].file_handle].closed
    /\ \A d \in DatesS :
          Cardinality({h \in 1..Len(handles) :
                          handles[h].date = d /\ ~handles[h].closed}) <= 1


\* The futures published and not yet awaited.
Outstanding == Len(futures) - awaited

\* C25: every return of publish_to_pubsub(records) gives counts with
\* published_count + error_count = len(records), and at no time are more
\* than PUBSUB_BATCH_SIZE publish futures outstanding.
C25_CountsAddUpBatchBounded ==
    /\ publish_pc = "returned" =>
          /\ returned # None
          /\ returned[1] + returned[2] = Len(records)
    /\ Outstanding <= PUBSUB_BATCH_SIZE

\* A call with more records than one batch has returned after awaiting every
\* future, some published and some failed.
C25_Witness ==
    /\ publish_pc = "returned"
    /\ Len(records) > PUBSUB_BATCH_SIZE
    /\ next_record > Len(records)
    /\ returned = <<published_count, error_count>>
    /\ published_count > 0
    /\ error_count > 0
====
